---------------------------- MODULE Spec2Model ----------------------------
(***************************************************************************)
(* Model of prefect.tasks.mysql: the tasks MySQLExecute and MySQLFetch.    *)
(* One task instance is constructed (Init) and then called any number of   *)
(* times.  A call to run is followed statement by statement; every call    *)
(* into the database driver (pymysql) is one step which the driver either  *)
(* completes or ends by raising an error.                                  *)
(***************************************************************************)
EXTENDS Integers, Sequences, FiniteSets, TLC

\* ------------------------------------------------------------------ bounds
MaxRows == 3          \* largest result set the driver produces
MaxFetchCount == 2    \* largest fetch_count a caller passes explicitly

\* ------------------------------------------------------- program constants
DefaultFetchCount == 10

\* ----------------------------------------------------------- Python values
\* A Python value whose type matters is a record [t |-> type, v |-> text].
Str(s) == [t |-> "str", v |-> s]
PyNone == [t |-> "NoneType", v |-> ""]
PyInt(s) == [t |-> "int", v |-> s]
Class(n) == [t |-> "type", v |-> n]
Function(n) == [t |-> "function", v |-> n]

\* "query is None" in place of "not query"
IsNone(value) == value.t = "NoneType"

\* bool(value) is False: None and the empty string are the falsy values here.
Falsy(value) == value.t = "NoneType" \/ (value.t = "str" /\ value.v = "")

\* callable(value): classes and functions are, strings, ints and None are not.
Callable(value) == value.t \in {"type", "function"}

\* str.lower() on the strings of the model.
Lower(s) ==
    CASE s = "Cursor" -> "cursor"
      [] s = "DictCursor" -> "dictcursor"
      [] s = "DICTCURSOR" -> "dictcursor"
      [] s = "Bogus" -> "bogus"
      [] OTHER -> s

\* ------------------------------------------------------------------ errors
NoError == [type |-> "", what |-> "", at |-> 0]
Error(type, what, at) == [type |-> type, what |-> what, at |-> at]

\* ------------------------------------------------------------ input ranges
Tasks == {"MySQLExecute", "MySQLFetch"}
Charsets == {"utf8mb4", "latin1"}
SelfQueries == {PyNone, Str("SELECT 1")}
CallQueries == {PyNone, Str(""), Str("SELECT id FROM t")}
CallFetches == {Str("one"), Str("many"), Str("all"), Str("ALL"), PyNone}
CallFetchCounts == 1..MaxFetchCount
CursorTypes ==
    {Str("cursor"), Str("DictCursor"), Str("DICTCURSOR"), Str("Bogus"),
     Class("Cursor"), Class("DictCursor"), Class("SSCursor"), Function("len"),
     PyInt("5"), PyNone}

VARIABLES
    task,      \* the class of the task instance
    self,      \* the attributes __init__ stored
    pc,        \* the statement of run the call is at ("idle": no call)
    locals,    \* run's parameters and local variables
    conn,      \* what connect was called with
    rows,      \* the result set the driver holds after execute
    trace,     \* the driver calls and logging.debug calls of the run, in order
    outcome    \* how the current run ended

vars == <<task, self, pc, locals, conn, rows, trace, outcome>>

NoLocals ==
    [query |-> PyNone, commit |-> FALSE, charset |-> "", fetch |-> PyNone,
     fetch_count |-> 0, cursor_type |-> PyNone, cursor_class |-> PyNone,
     executed |-> 0, results |-> [t |-> "unset", rows |-> <<>>],
     e |-> NoError, unwinding |-> NoError]
NoConn == [connected |-> FALSE, charset |-> "", cursorclass |-> PyNone]
NoOutcome ==
    [kind |-> "none", error |-> NoError, int |-> 0,
     value |-> [t |-> "unset", rows |-> <<>>]]

\* ------------------------------------------------------------ construction
Init ==
    /\ task \in Tasks
    /\ \E query \in SelfQueries, commit \in BOOLEAN, charset \in Charsets :
          self = [query |-> query, commit |-> commit, charset |-> charset,
                  fetch |-> Str("one"), fetch_count |-> DefaultFetchCount,
                  cursor_type |-> Str("cursor")]
    /\ pc = "idle"
    /\ locals = NoLocals
    /\ conn = NoConn
    /\ rows = <<>>
    /\ trace = <<>>
    /\ outcome = NoOutcome

\* ------------------------------------------------------------------ helpers
\* The error a driver call raises: a fresh object, told apart by the call.
DriverError(op) == Error("MySQLError", op, Len(trace) + 1)

\* The record of one driver call: ok tells whether it returned or raised,
\* n is its argument where it takes a number.
Call(op, ok, n) ==
    [op |-> op, ok |-> ok, n |-> n, msg |-> "",
     error |-> IF ok THEN NoError ELSE DriverError(op)]

\* The record of logging.debug(msg, arg): error is the error logged, NoError
\* when arg is a result.
Debug(msg, error) == [op |-> "debug", ok |-> TRUE, n |-> 0, msg |-> msg, error |-> error]

\* run ends by raising error.
Raise(error) == [NoOutcome EXCEPT !.kind = "raise", !.error = error]

\* defaults_from_attrs: a keyword the caller passed wins, else the attribute.
defaults_from_attrs(provided, value, attr) == IF provided THEN value ELSE attr

\* ---------------------------------------------------------- MySQLExecute.run
ExecuteCall ==
    /\ task = "MySQLExecute"
    /\ pc = "idle"
    /\ \E pq, pc0, pch \in BOOLEAN, query \in CallQueries, commit \in BOOLEAN,
          charset \in Charsets :
          locals' = [NoLocals EXCEPT
              !.query = defaults_from_attrs(pq, query, self.query),
              !.commit = defaults_from_attrs(pc0, commit, self.commit),
              !.charset = defaults_from_attrs(pch, charset, self.charset)]
    /\ pc' = "validate"
    /\ UNCHANGED <<task, self, conn, rows, trace, outcome>>

\* if not query: raise ValueError(...)
ExecuteValidate ==
    /\ task = "MySQLExecute"
    /\ pc = "validate"
    /\ IF Falsy(locals.query)
         THEN /\ outcome' = Raise(Error("ValueError", "A query string must be provided", 0))
              /\ pc' = "done"
         ELSE /\ pc' = "connect"
              /\ UNCHANGED outcome
    /\ UNCHANGED <<task, self, locals, conn, rows, trace>>

\* The charset keyword MySQLExecute.run hands to pymysql.connect.
ExecuteConnectCharset == self.charset

\* pymysql.connect called inside the try block: its error reaches the handler.
ExecuteConnectInsideTry ==
    /\ task = "MySQLExecute"
    /\ pc = "connect"
    /\ \E ok \in BOOLEAN :
          /\ trace' = Append(trace, Call("connect", ok, 0))
          /\ IF ok
               THEN /\ conn' = [connected |-> TRUE, charset |-> self.charset,
                                cursorclass |-> Class("Cursor")]
                    /\ pc' = "cursor"
                    /\ UNCHANGED locals
               ELSE /\ locals' = [locals EXCEPT !.e = DriverError("connect")]
                    /\ pc' = "except"
                    /\ UNCHANGED conn
    /\ UNCHANGED <<task, self, rows, outcome>>

\* conn = pymysql.connect(...), outside the try block
ExecuteConnect ==
    /\ task = "MySQLExecute"
    /\ pc = "connect"
    /\ \E ok \in BOOLEAN :
          /\ trace' = Append(trace, Call("connect", ok, 0))
          /\ IF ok
               THEN /\ conn' = [connected |-> TRUE, charset |-> ExecuteConnectCharset,
                                cursorclass |-> Class("Cursor")]
                    /\ pc' = "cursor"
                    /\ UNCHANGED outcome
               ELSE /\ outcome' = Raise(DriverError("connect"))
                    /\ pc' = "done"
                    /\ UNCHANGED conn
    /\ UNCHANGED <<task, self, locals, rows>>

\* with conn.cursor() as cursor:
ExecuteCursor ==
    /\ task = "MySQLExecute"
    /\ pc = "cursor"
    /\ \E ok \in BOOLEAN :
          /\ trace' = Append(trace, Call("cursor", ok, 0))
          /\ IF ok
               THEN /\ pc' = "execute"
                    /\ UNCHANGED locals
               ELSE /\ locals' = [locals EXCEPT !.e = DriverError("cursor")]
                    /\ pc' = "except"
    /\ UNCHANGED <<task, self, conn, rows, outcome>>

\* if commit: conn.commit()  -- the statement after a successful execute
ExecuteCommitAlways(commit) == "commit"
ExecuteIfCommit(commit) == IF commit THEN "commit" ELSE "cursor_exit"

\* executed = cursor.execute(query)
ExecuteExecute ==
    /\ task = "MySQLExecute"
    /\ pc = "execute"
    /\ \E ok \in BOOLEAN, affected \in 0..MaxRows :
          /\ trace' = Append(trace, Call("execute", ok, 0))
          /\ IF ok
               THEN /\ locals' = [locals EXCEPT !.executed = affected]
                    /\ pc' = ExecuteIfCommit(locals.commit)
               ELSE /\ locals' = [locals EXCEPT !.unwinding = DriverError("execute")]
                    /\ pc' = "cursor_exit"
    /\ UNCHANGED <<task, self, conn, rows, outcome>>

\* conn.commit()
ExecuteCommit ==
    /\ task = "MySQLExecute"
    /\ pc = "commit"
    /\ \E ok \in BOOLEAN :
          /\ trace' = Append(trace, Call("commit", ok, 0))
          /\ IF ok
               THEN UNCHANGED locals
               ELSE locals' = [locals EXCEPT !.unwinding = DriverError("commit")]
    /\ pc' = "cursor_exit"
    /\ UNCHANGED <<task, self, conn, rows, outcome>>

\* Leaving the with block: cursor.__exit__ closes the cursor, on the normal
\* path and while an error raised inside the block unwinds.  An error raised
\* by the cursor's close takes the place of the one that was unwinding.
ExecuteCursorExit ==
    /\ task = "MySQLExecute"
    /\ pc = "cursor_exit"
    /\ \E ok \in BOOLEAN :
          /\ trace' = Append(trace, Call("cursor_close", ok, 0))
          /\ IF ok
               THEN IF locals.unwinding = NoError
                      THEN /\ pc' = "close"
                           /\ UNCHANGED locals
                      ELSE /\ pc' = "except"
                           /\ locals' = [locals EXCEPT !.e = locals.unwinding]
               ELSE /\ pc' = "except"
                    /\ locals' = [locals EXCEPT !.e = DriverError("cursor_close")]
    /\ UNCHANGED <<task, self, conn, rows, outcome>>

\* conn.close() inside the try block
ExecuteClose ==
    /\ task = "MySQLExecute"
    /\ pc = "close"
    /\ \E ok \in BOOLEAN :
          /\ trace' = Append(trace, Call("close", ok, 0))
          /\ IF ok
               THEN /\ pc' = "return"
                    /\ UNCHANGED locals
               ELSE /\ pc' = "except"
                    /\ locals' = [locals EXCEPT !.e = DriverError("close")]
    /\ UNCHANGED <<task, self, conn, rows, outcome>>

\* logging.debug("Execute Results: %s", executed); return executed
ExecuteReturn ==
    /\ task = "MySQLExecute"
    /\ pc = "return"
    /\ trace' = Append(trace, Debug("Execute Results: %s", NoError))
    /\ outcome' = [NoOutcome EXCEPT !.kind = "return", !.int = locals.executed]
    /\ pc' = "done"
    /\ UNCHANGED <<task, self, locals, conn, rows>>

\* except (Exception, pymysql.MySQLError) as e:
\*     conn.close(); logging.debug("Execute Error: %s", e); raise e
\* An error raised by this conn.close() leaves the handler at once.
ExecuteExcept ==
    /\ task = "MySQLExecute"
    /\ pc = "except"
    /\ \E ok \in BOOLEAN :
          IF ok
            THEN /\ trace' = trace \o <<Call("close", TRUE, 0),
                                         Debug("Execute Error: %s", locals.e)>>
                 /\ outcome' = Raise(locals.e)
            ELSE /\ trace' = Append(trace, Call("close", FALSE, 0))
                 /\ outcome' = Raise(DriverError("close"))
    /\ pc' = "done"
    /\ UNCHANGED <<task, self, locals, conn, rows>>

\* ------------------------------------------------------------ MySQLFetch.run
FetchCall ==
    /\ task = "MySQLFetch"
    /\ pc = "idle"
    /\ \E pq, pf, pn, pc0, pch, pct \in BOOLEAN, query \in CallQueries,
          fetch \in CallFetches, fetch_count \in CallFetchCounts,
          commit \in BOOLEAN, charset \in Charsets, cursor_type \in CursorTypes :
          locals' = [NoLocals EXCEPT
              !.query = defaults_from_attrs(pq, query, self.query),
              !.fetch = defaults_from_attrs(pf, fetch, self.fetch),
              !.fetch_count = defaults_from_attrs(pn, fetch_count, self.fetch_count),
              !.commit = defaults_from_attrs(pc0, commit, self.commit),
              !.charset = defaults_from_attrs(pch, charset, self.charset),
              !.cursor_type = defaults_from_attrs(pct, cursor_type, self.cursor_type)]
    /\ pc' = "validate"
    /\ UNCHANGED <<task, self, conn, rows, trace, outcome>>

\* fetch not in {"one", "many", "all"}
FetchModes == {Str("one"), Str("many"), Str("all")}

\* cursor_types = {"cursor": Cursor, "dictcursor": DictCursor}; .get(name)
cursor_types_get(name) ==
    CASE name = "cursor" -> Class("Cursor")
      [] name = "dictcursor" -> Class("DictCursor")
      [] OTHER -> PyNone

\* cursor_types.values()
cursor_types_values == {Class("Cursor"), Class("DictCursor")}

\* cursor_class, for a cursor_type that is callable or a string
CursorClass(cursor_type) ==
    IF Callable(cursor_type) THEN cursor_type
    ELSE cursor_types_get(Lower(cursor_type.v))

\* The checks with cursor_type looked at before fetch.
FetchValidationErrorCursorFirst(query, fetch, cursor_type) ==
    IF Falsy(query)
      THEN Error("ValueError", "A query string must be provided", 0)
    ELSE IF ~Callable(cursor_type) /\ cursor_type.t # "str"
      THEN Error("AttributeError", "lower", 0)
    ELSE IF CursorClass(cursor_type) = PyNone
            \/ CursorClass(cursor_type) \notin cursor_types_values
      THEN Error("TypeError", cursor_type.v, 0)
    ELSE IF fetch \notin FetchModes
      THEN Error("ValueError",
                 "The 'fetch' parameter must be one of the following - ('one', 'many', 'all')", 0)
    ELSE NoError

\* The error the checks before connect raise, in the order of the code, or
\* NoError when all pass.  cursor_type.lower() raises AttributeError on a
\* value that is neither callable nor a string.
FetchValidationError(query, fetch, cursor_type) ==
    IF Falsy(query)
      THEN Error("ValueError", "A query string must be provided", 0)
    ELSE IF fetch \notin FetchModes
      THEN Error("ValueError",
                 "The 'fetch' parameter must be one of the following - ('one', 'many', 'all')", 0)
    ELSE IF ~Callable(cursor_type) /\ cursor_type.t # "str"
      THEN Error("AttributeError", "lower", 0)
    ELSE IF CursorClass(cursor_type) = PyNone
            \/ CursorClass(cursor_type) \notin cursor_types_values
      THEN Error("TypeError", cursor_type.v, 0)
    ELSE NoError

FetchValidate ==
    /\ task = "MySQLFetch"
    /\ pc = "validate"
    /\ LET error == FetchValidationError(locals.query, locals.fetch, locals.cursor_type)
       IN  IF error # NoError
             THEN /\ outcome' = Raise(error)
                  /\ pc' = "done"
                  /\ UNCHANGED locals
             ELSE /\ locals' = [locals EXCEPT
                                  !.cursor_class = CursorClass(locals.cursor_type)]
                  /\ pc' = "connect"
                  /\ UNCHANGED outcome
    /\ UNCHANGED <<task, self, conn, rows, trace>>

\* The charset keyword MySQLFetch.run hands to pymysql.connect.
FetchConnectCharset == self.charset

\* conn = pymysql.connect(..., cursorclass=cursor_class), outside the try block
FetchConnect ==
    /\ task = "MySQLFetch"
    /\ pc = "connect"
    /\ \E ok \in BOOLEAN :
          /\ trace' = Append(trace, Call("connect", ok, 0))
          /\ IF ok
               THEN /\ conn' = [connected |-> TRUE, charset |-> FetchConnectCharset,
                                cursorclass |-> locals.cursor_class]
                    /\ pc' = "cursor"
                    /\ UNCHANGED outcome
               ELSE /\ outcome' = Raise(DriverError("connect"))
                    /\ pc' = "done"
                    /\ UNCHANGED conn
    /\ UNCHANGED <<task, self, locals, rows>>

\* with conn.cursor() as cursor:
FetchCursor ==
    /\ task = "MySQLFetch"
    /\ pc = "cursor"
    /\ \E ok \in BOOLEAN :
          /\ trace' = Append(trace, Call("cursor", ok, 0))
          /\ IF ok
               THEN /\ pc' = "execute"
                    /\ UNCHANGED locals
               ELSE /\ locals' = [locals EXCEPT !.e = DriverError("cursor")]
                    /\ pc' = "except"
    /\ UNCHANGED <<task, self, conn, rows, outcome>>

\* A row as the connection's cursor class shapes it.
Row(id, cursorclass) ==
    [id |-> id, shape |-> IF cursorclass = Class("DictCursor") THEN "dict" ELSE "tuple"]

\* The result set of a query that selects n rows, in the driver's order.
ResultSet(n, cursorclass) == [i \in 1..n |-> Row(i, cursorclass)]

\* cursor.execute(query): the driver now holds the result set
FetchExecute ==
    /\ task = "MySQLFetch"
    /\ pc = "execute"
    /\ \E ok \in BOOLEAN, n \in 0..MaxRows :
          /\ trace' = Append(trace, Call("execute", ok, 0))
          /\ IF ok
               THEN /\ rows' = ResultSet(n, conn.cursorclass)
                    /\ pc' = "fetch"
                    /\ UNCHANGED locals
               ELSE /\ locals' = [locals EXCEPT !.unwinding = DriverError("execute")]
                    /\ pc' = "cursor_exit"
                    /\ UNCHANGED rows
    /\ UNCHANGED <<task, self, conn, outcome>>

Min(a, b) == IF a < b THEN a ELSE b

\* The cursor's fetch methods on a result set not read yet.
fetchall(rs) == [t |-> "rows", rows |-> rs]
fetchmany(rs, size) == [t |-> "rows", rows |-> SubSeq(rs, 1, Min(size, Len(rs)))]
fetchone(rs) ==
    IF rs = <<>> THEN [t |-> "NoneType", rows |-> <<>>]
    ELSE [t |-> "row", rows |-> <<rs[1]>>]

\* The dispatch with fetchmany() called without fetch_count: the cursor's
\* arraysize, one row, is then the size.
FetchDispatchNoCount(fetch, fetch_count, rs) ==
    IF fetch = Str("all")
      THEN [op |-> "fetchall", n |-> 0, results |-> fetchall(rs)]
    ELSE IF fetch = Str("many")
      THEN [op |-> "fetchmany", n |-> 1, results |-> fetchmany(rs, 1)]
    ELSE [op |-> "fetchone", n |-> 0, results |-> fetchone(rs)]

\* if fetch == "all": ... elif fetch == "many": ... else: ...
\* The fetch call made: its name, its argument and what it returns.
FetchDispatch(fetch, fetch_count, rs) ==
    IF fetch = Str("all")
      THEN [op |-> "fetchall", n |-> 0, results |-> fetchall(rs)]
    ELSE IF fetch = Str("many")
      THEN [op |-> "fetchmany", n |-> fetch_count, results |-> fetchmany(rs, fetch_count)]
    ELSE [op |-> "fetchone", n |-> 0, results |-> fetchone(rs)]

\* if commit: conn.commit()  -- the statement after a successful fetch
FetchIfCommit(commit) == IF commit THEN "commit" ELSE "cursor_exit"

\* results = cursor.fetchall() / fetchmany(fetch_count) / fetchone()
FetchFetch ==
    /\ task = "MySQLFetch"
    /\ pc = "fetch"
    /\ LET d == FetchDispatch(locals.fetch, locals.fetch_count, rows)
       IN  \E ok \in BOOLEAN :
              /\ trace' = Append(trace, Call(d.op, ok, d.n))
              /\ IF ok
                   THEN /\ locals' = [locals EXCEPT !.results = d.results]
                        /\ pc' = FetchIfCommit(locals.commit)
                   ELSE /\ locals' = [locals EXCEPT !.unwinding = DriverError(d.op)]
                        /\ pc' = "cursor_exit"
    /\ UNCHANGED <<task, self, conn, rows, outcome>>

\* conn.commit()
FetchCommit ==
    /\ task = "MySQLFetch"
    /\ pc = "commit"
    /\ \E ok \in BOOLEAN :
          /\ trace' = Append(trace, Call("commit", ok, 0))
          /\ IF ok
               THEN UNCHANGED locals
               ELSE locals' = [locals EXCEPT !.unwinding = DriverError("commit")]
    /\ pc' = "cursor_exit"
    /\ UNCHANGED <<task, self, conn, rows, outcome>>

\* Leaving the with block, as in MySQLExecute.run.
FetchCursorExit ==
    /\ task = "MySQLFetch"
    /\ pc = "cursor_exit"
    /\ \E ok \in BOOLEAN :
          /\ trace' = Append(trace, Call("cursor_close", ok, 0))
          /\ IF ok
               THEN IF locals.unwinding = NoError
                      THEN /\ pc' = "close"
                           /\ UNCHANGED locals
                      ELSE /\ pc' = "except"
                           /\ locals' = [locals EXCEPT !.e = locals.unwinding]
               ELSE /\ pc' = "except"
                    /\ locals' = [locals EXCEPT !.e = DriverError("cursor_close")]
    /\ UNCHANGED <<task, self, conn, rows, outcome>>

\* conn.close() inside the try block
FetchClose ==
    /\ task = "MySQLFetch"
    /\ pc = "close"
    /\ \E ok \in BOOLEAN :
          /\ trace' = Append(trace, Call("close", ok, 0))
          /\ IF ok
               THEN /\ pc' = "return"
                    /\ UNCHANGED locals
               ELSE /\ pc' = "except"
                    /\ locals' = [locals EXCEPT !.e = DriverError("close")]
    /\ UNCHANGED <<task, self, conn, rows, outcome>>

\* logging.debug("Fetch Results: %s", results); return results
FetchReturn ==
    /\ task = "MySQLFetch"
    /\ pc = "return"
    /\ trace' = Append(trace, Debug("Fetch Results: %s", NoError))
    /\ outcome' = [NoOutcome EXCEPT !.kind = "return", !.value = locals.results]
    /\ pc' = "done"
    /\ UNCHANGED <<task, self, locals, conn, rows>>

\* except (Exception, pymysql.MySQLError) as e:
\*     conn.close(); logging.debug("Fetch Error: %s", e); raise e
FetchExcept ==
    /\ task = "MySQLFetch"
    /\ pc = "except"
    /\ \E ok \in BOOLEAN :
          IF ok
            THEN /\ trace' = trace \o <<Call("close", TRUE, 0),
                                         Debug("Fetch Error: %s", locals.e)>>
                 /\ outcome' = Raise(locals.e)
            ELSE /\ trace' = Append(trace, Call("close", FALSE, 0))
                 /\ outcome' = Raise(DriverError("close"))
    /\ pc' = "done"
    /\ UNCHANGED <<task, self, locals, conn, rows>>

\* ---------------------------------------------------------------- next call
\* The call is over; its locals are gone and the task can be run again.
Finish ==
    /\ pc = "done"
    /\ pc' = "idle"
    /\ locals' = NoLocals
    /\ conn' = NoConn
    /\ rows' = <<>>
    /\ trace' = <<>>
    /\ outcome' = NoOutcome
    /\ UNCHANGED <<task, self>>

Next ==
    \/ ExecuteCall
    \/ ExecuteValidate
    \/ ExecuteConnect
    \/ ExecuteCursor
    \/ ExecuteExecute
    \/ ExecuteCommit
    \/ ExecuteCursorExit
    \/ ExecuteClose
    \/ ExecuteReturn
    \/ ExecuteExcept
    \/ FetchCall
    \/ FetchValidate
    \/ FetchConnect
    \/ FetchCursor
    \/ FetchExecute
    \/ FetchFetch
    \/ FetchCommit
    \/ FetchCursorExit
    \/ FetchClose
    \/ FetchReturn
    \/ FetchExcept
    \/ Finish

Spec == Init /\ [][Next]_vars

\* ================================================================== claims
\* Positions of the trace that hold a call of one of the operations ops.
At(ops) == {i \in 1..Len(trace) : trace[i].op \in ops}
Count(ops) == Cardinality(At(ops))
FetchOps == {"fetchone", "fetchmany", "fetchall"}
Connected == trace # <<>> /\ trace[1].op = "connect" /\ trace[1].ok
Succeeded(ops) == \E i \in At(ops) : trace[i].ok
EmptyQueries == {PyNone, Str("")}
QueryError == Error("ValueError", "A query string must be provided", 0)
FetchError ==
    Error("ValueError",
          "The 'fetch' parameter must be one of the following - ('one', 'many', 'all')", 0)

\* C1: in every call whose connect succeeded, Connection.close() has been
\* invoked exactly once by the time run returns or raises, whichever driver
\* operation (close itself included) failed.
C1_ClosedExactlyOnce ==
    (pc = "done" /\ Connected) => Count({"close"}) = 1

\* C2: with the resolved commit flag false, commit is never invoked; with it
\* true and execute (and, for MySQLFetch, the fetch) succeeded, commit is
\* invoked exactly once, after the execute/fetch calls and before every close.
C2_CommitDiscipline ==
    /\ ~locals.commit => Count({"commit"}) = 0
    /\ (/\ pc = "done"
        /\ locals.commit
        /\ Succeeded({"execute"})
        /\ task = "MySQLFetch" => Succeeded(FetchOps))
       => /\ Count({"commit"}) = 1
          /\ \A i \in At({"commit"}) :
                /\ \A j \in At({"execute"} \cup FetchOps) : j < i
                /\ \A j \in At({"close"}) : i < j
                /\ At({"close"}) # {}

\* C2 witness: a fetch whose caller turned commit on over the constructor's
\* False, which executed, fetched, committed once and returned.
C2_Witness ==
    /\ pc = "done" /\ task = "MySQLFetch" /\ outcome.kind = "return"
    /\ ~self.commit /\ locals.commit
    /\ Count({"commit"}) = 1

\* C3: whenever the resolved query is absent or empty, run fails with
\* ValueError("A query string must be provided") and connect is never called,
\* whatever the other arguments are.
C3_NoQueryNoConnection ==
    (pc \notin {"idle", "validate"} /\ locals.query \in EmptyQueries)
       => /\ pc = "done"
          /\ outcome = Raise(QueryError)
          /\ trace = <<>>

\* C3 witness: a fetch with no query from the constructor, an empty one from
\* the caller and a cursor_type that is no string has failed on the query.
C3_Witness ==
    /\ pc = "done" /\ task = "MySQLFetch"
    /\ self.query = PyNone /\ locals.query = Str("")
    /\ locals.cursor_type = PyInt("5")
    /\ outcome = Raise(QueryError)

\* C4: when cursor acquisition, execute, a fetch or commit raises after a
\* successful connect, the task closes the connection, then logs that error
\* at debug level, then raises that same error; execute is called at most
\* once and no value is returned.
C4_ClosedLoggedReraised ==
    pc = "done" =>
       \A i \in At({"cursor", "execute", "commit"} \cup FetchOps) :
          ~trace[i].ok =>
             /\ outcome = Raise(trace[i].error)
             /\ \E c \in At({"close"}), l \in At({"debug"}) :
                   /\ i < c /\ c < l
                   /\ trace[l].error = trace[i].error
             /\ Count({"execute"}) <= 1

\* C5: every driver error that reaches the caller, a connection failure
\* raised by connect included, has been logged at debug level before.
C5_EveryDriverErrorLogged ==
    (pc = "done" /\ outcome.kind = "raise" /\ outcome.error.type = "MySQLError")
       => \E l \in At({"debug"}) : trace[l].error = outcome.error

\* The cursor_type values run accepts: the two names in any case and the two
\* cursor classes.
RecognizedCursorTypes ==
    {Str("cursor"), Str("Cursor"), Str("CURSOR"), Str("dictcursor"),
     Str("DictCursor"), Str("DICTCURSOR"), Class("Cursor"), Class("DictCursor")}

\* C6: MySQLFetch.run with a non-empty query and a valid fetch mode fails with
\* a TypeError naming the value, and never connects, for every cursor_type
\* that is not recognized: other strings, other callables, and values that
\* are neither strings nor callables.
C6_UnrecognizedCursorTypeIsTypeError ==
    (/\ task = "MySQLFetch"
     /\ pc \notin {"idle", "validate"}
     /\ locals.query \notin EmptyQueries
     /\ locals.fetch \in {Str("one"), Str("many"), Str("all")}
     /\ locals.cursor_type \notin RecognizedCursorTypes)
       => /\ pc = "done"
          /\ outcome = Raise(Error("TypeError", locals.cursor_type.v, 0))
          /\ trace = <<>>

\* C7: the charset passed to connect is the resolved charset: the per-call
\* argument when the caller gives one, the constructor's otherwise.
C7_ConnectsWithResolvedCharset ==
    conn.connected => conn.charset = locals.charset

\* C8: MySQLFetch.run checks query, then fetch, then cursor_type, and the
\* first failing check decides the error: an empty query fails on the query;
\* with a non-empty query every fetch outside one, many, all fails with the
\* ValueError listing them, whatever cursor_type is, and connect is never
\* called.
C8_FetchCheckedBeforeCursorType ==
    (task = "MySQLFetch" /\ pc \notin {"idle", "validate"}) =>
       /\ locals.query \in EmptyQueries => outcome = Raise(QueryError)
       /\ (/\ locals.query \notin EmptyQueries
           /\ locals.fetch \notin {Str("one"), Str("many"), Str("all")})
          => /\ pc = "done"
             /\ outcome = Raise(FetchError)
             /\ trace = <<>>

\* C8 witness: a call whose fetch is "ALL" and whose cursor_type would fail
\* too has failed on fetch.
C8_Witness ==
    /\ pc = "done" /\ task = "MySQLFetch"
    /\ locals.query = Str("SELECT id FROM t")
    /\ locals.fetch = Str("ALL")
    /\ locals.cursor_type = Str("Bogus")
    /\ outcome = Raise(FetchError)

\* C9: when connect raises, run raises that very error and makes no other
\* driver call: no cursor, execute, fetch, commit or close, and no connection
\* exists after the call.
C9_ConnectErrorPropagatesAlone ==
    (trace # <<>> /\ trace[1].op = "connect" /\ ~trace[1].ok)
       => /\ pc = "done"
          /\ Len(trace) = 1
          /\ outcome = Raise(trace[1].error)
          /\ ~conn.connected

\* C9 witness: an execute task whose connect raised has ended.
C9_Witness ==
    /\ pc = "done" /\ task = "MySQLExecute"
    /\ Len(trace) = 1 /\ trace[1].op = "connect" /\ ~trace[1].ok
    /\ outcome.kind = "raise" /\ outcome.error.what = "connect"

\* C10: a successful MySQLFetch.run makes exactly one fetch call, the one its
\* fetch mode names, after execute, and returns what it returned: for 'one'
\* the first row or None when there is none, for 'many' the first
\* min(fetch_count, number of rows) rows, for 'all' every row, in the
\* driver's order.
C10_FetchReturnsByMode ==
    (task = "MySQLFetch" /\ pc = "done" /\ outcome.kind = "return") =>
       /\ Count(FetchOps) = 1
       /\ \A i \in At(FetchOps) : \E x \in At({"execute"}) : x < i /\ trace[x].ok
       /\ locals.fetch = Str("one") =>
             /\ Count({"fetchone"}) = 1
             /\ outcome.value =
                   IF Len(rows) = 0 THEN [t |-> "NoneType", rows |-> <<>>]
                   ELSE [t |-> "row", rows |-> <<rows[1]>>]
       /\ locals.fetch = Str("many") =>
             /\ Count({"fetchmany"}) = 1
             /\ outcome.value.t = "rows"
             /\ Len(outcome.value.rows) =
                   IF locals.fetch_count < Len(rows) THEN locals.fetch_count ELSE Len(rows)
             /\ \A k \in 1..Len(outcome.value.rows) : outcome.value.rows[k] = rows[k]
       /\ locals.fetch = Str("all") =>
             /\ Count({"fetchall"}) = 1
             /\ outcome.value = [t |-> "rows", rows |-> rows]

\* C10 witness: fetch "many" with fetch_count 2 over three rows returned the
\* first two.
C10_Witness ==
    /\ task = "MySQLFetch" /\ pc = "done" /\ outcome.kind = "return"
    /\ locals.fetch = Str("many") /\ locals.fetch_count = 2 /\ Len(rows) = 3
    /\ Len(outcome.value.rows) = 2
    /\ outcome.value.rows[2].id = 2

=============================================================================
